---- MODULE Spec2Model ----
(***************************************************************************)
(* botoform.builders.EnvironmentBuilder: the build pipeline (_apply_all),  *)
(* the role reconciler (instance_roles / instance_role / tag_instances)    *)
(* and the subnet address allocator used by subnets().                     *)
(***************************************************************************)
EXTENDS Integers, Sequences, FiniteSets, TLC

\* ------------------------------------------------------------------ bounds
MaxDesired == 3        \* largest 'count' of a role in the configuration
MaxExisting == 2       \* most instances present in the VPC before the build
MaxRequests == 3       \* most subnet size requests of one allocation
MaxPrefixBits == 3     \* parent blocks hold at most 2^MaxPrefixBits addresses
MaxPasses == 3         \* most calls of apply_all on one VPC

\* --------------------------------------------------------------- universes
Zones == {"a", "b", "c"}            \* the subnets a role can name
Roles == {"web", "db"}              \* the keys of config['instance_roles']
SubnetLists == {<<>>, <<"a">>, <<"b", "a">>, <<"a", "b", "c">>}
EipChoices == {{}, {"web"}}         \* the roles configured with eip: True
NoZone == "-"
NoRole == "-"

VARIABLES
    config,             \* config['instance_roles']: role -> [count, subnets, eip]
    tagged,             \* zone -> role -> instances of the zone tagged with the role
    untagged,           \* zone -> instances of the zone carrying no role tag
    pc,                 \* position of _apply_all / apply_all
    completed,          \* the pipeline stages that have returned
    log,                \* provider calls issued so far, in order
    emits,              \* notable self.log.emit messages
    exc,                \* the exception in flight ("none" when there is none)
    exc_stage,          \* the position at which exc was raised
    raised,             \* what apply_all raised to its caller
    roles,              \* instance_roles: roles dict, role -> result of instance_role
    roles_with_eips,    \* instance_roles: roles_with_eips list
    eip_idx,            \* instance_roles: position of the EIP loop
    tag_done,           \* instance_roles: roles the tagging loop has handled
    tag_role,           \* tag_instances: role_name
    role_name,          \* instance_role: role_name
    subnets,            \* instance_role: the sorted subnets
    existing_count,     \* instance_role: existing_count
    needed_per_subnet,  \* instance_role: needed_per_subnet
    needed_remainder,   \* instance_role: needed_remainder
    idx,                \* instance_role: 1-based position of the subnet loop
    existing_in_subnet, \* instance_role: existing_in_subnet of the last iteration
    count,              \* instance_role: count of the last iteration
    role_instances,     \* instance_role: role_instances, as zone -> launched
    subnet_cfg,         \* config['subnets']: the 'size' of each subnet, in dict order
    parent,             \* subnets: self.evpc.cidr_block, [base, cap]
    sizes,              \* subnets: sizes handed to allocate
    cidrs,              \* subnets: what allocate returned
    created,            \* subnets: the subnets created, [size, cidr] each
    pass,               \* how many times apply_all has been called on this VPC
    seen_tokens,        \* the ClientTokens the provider has processed
    launched,           \* role -> instances the provider created for its launches
    pass_tagged         \* role -> zone -> instances tag_instances tagged this pass

cfgvars == <<config>>
cloudvars == <<tagged, untagged>>
ctlvars == <<pc, completed, log, emits, exc, exc_stage, raised>>
rolesvars == <<roles, roles_with_eips, eip_idx, tag_done, tag_role>>
rolevars == <<role_name, subnets, existing_count, needed_per_subnet,
              needed_remainder, idx, existing_in_subnet, count, role_instances>>
allocvars == <<subnet_cfg, parent, sizes, cidrs, created>>
passvars == <<pass, seen_tokens, launched, pass_tagged>>
vars == <<cfgvars, cloudvars, ctlvars, rolesvars, rolevars, allocvars, passvars>>

\* ----------------------------------------------------------------- helpers
RECURSIVE SumOver(_, _)
SumOver(f, S) ==
    IF S = {} THEN 0
    ELSE LET x == CHOOSE y \in S : TRUE IN f[x] + SumOver(f, S \ {x})

RECURSIVE SumSeq(_)
SumSeq(s) == IF s = <<>> THEN 0 ELSE Head(s) + SumSeq(Tail(s))

Range(s) == {s[i] : i \in 1..Len(s)}

ZeroPerZone == [z \in Zones |-> 0]

Call(op, r, z, n) == [op |-> op, role |-> r, zone |-> z, n |-> n]

\* collection_len(sn.instances): every instance of the subnet, whatever its tags
collection_len(sn) == SumOver(tagged[sn], Roles) + untagged[sn]

\* len(self.evpc.get_role(role_name)): the role's instances in the whole VPC
get_role_len(r) == SumOver([z \in Zones |-> tagged[z][r]], Zones)

\* len(self.evpc.get_role(role_name, subnet.instances.all()))
get_role_in_subnet_len(r, sn) == tagged[sn][r]

\* sorted(seq, key=...): Python's sort is stable and ascending
InsertByKey(s, x, key) ==
    LET pos == Cardinality({i \in 1..Len(s) : key[s[i]] <= key[x]})
    IN SubSeq(s, 1, pos) \o <<x>> \o SubSeq(s, pos + 1, Len(s))

RECURSIVE SortByKey(_, _)
SortByKey(s, key) ==
    IF s = <<>> THEN <<>>
    ELSE InsertByKey(SortByKey(SubSeq(s, 1, Len(s) - 1), key), s[Len(s)], key)

unsorted(s, key) == s

sorted(s, key) == SortByKey(s, key)

\* --------------------------------------------------------------- allocate
\* botoform.subnetallocator.allocate: a block is [base, cap], the addresses
\* base .. base + cap - 1.
Pow2(k) == 2 ^ k

IsPowerOfTwo(n) == \E k \in 0..(MaxPrefixBits + 1) : n = Pow2(k)

Block(base, cap) == [base |-> base, cap |-> cap]

Pending == [status |-> "pending", blocks |-> <<>>]
CapacityExceeded == [status |-> "CapacityExceeded", blocks |-> <<>>]
Allocated(blocks) == [status |-> "ok", blocks |-> blocks]

\* the next address at or after cursor that is a multiple of cap
RoundUp(cursor, cap) == ((cursor + cap - 1) \div cap) * cap

NoAdvance(start, cap) == start

Advance(start, cap) == start + cap

\* the positions of reqs by decreasing size, equal sizes in request order
DecreasingOrder(reqs) ==
    SortByKey([i \in 1..Len(reqs) |-> i], [i \in 1..Len(reqs) |-> 0 - reqs[i]])

\* steps 3 and 4: the cursor walk over the requests in processing order
RECURSIVE Pack(_, _, _)
Pack(reqs, cursor, end) ==
    IF reqs = <<>> THEN Allocated(<<>>)
    ELSE LET cap == Head(reqs)
             start == RoundUp(cursor, cap)
         IN IF start + cap > end THEN CapacityExceeded
            ELSE LET rest == Pack(Tail(reqs), Advance(start, cap), end)
                 IN IF rest.status = "ok"
                    THEN Allocated(<<Block(start, cap)>> \o rest.blocks)
                    ELSE rest

allocate(p, reqs) ==
    IF \/ \E i \in 1..Len(reqs) : ~IsPowerOfTwo(reqs[i])
       \/ p.cap < SumSeq(reqs)
    THEN CapacityExceeded
    ELSE LET order == DecreasingOrder(reqs)
             packed == Pack([k \in 1..Len(reqs) |-> reqs[order[k]]],
                            p.base, p.base + p.cap)
             at(i) == CHOOSE k \in 1..Len(reqs) : order[k] = i
         IN IF packed.status = "ok"
            THEN Allocated([i \in 1..Len(reqs) |-> packed.blocks[at(i)]])
            ELSE packed

\* subnets(), lines 139-152: zip(sizes, cidrs) grouped by size, then one
\* pop() from the size's list per configured subnet
assign_cidrs_no_pop(cfg, szs, cds) ==
    [j \in 1..Len(cfg) |->
        LET same == {i \in 1..Len(szs) : szs[i] = cfg[j]}
            pick == CHOOSE i \in same : \A m \in same : m <= i
        IN [size |-> cfg[j], cidr |-> cds[pick]]]

assign_cidrs(cfg, szs, cds) ==
    [j \in 1..Len(cfg) |->
        LET same == {i \in 1..Len(szs) : szs[i] = cfg[j]}
            taken == Cardinality({i \in 1..(j - 1) : cfg[i] = cfg[j]})
            pick == CHOOSE i \in same :
                       Cardinality({m \in same : m > i}) = taken
        IN [size |-> cfg[j], cidr |-> cds[pick]]]

\* ---------------------------------------------------------------- pipeline
\* _apply_all: "the order of these method calls matters for new VPCs"
PipelineRulesFirst ==
    << "route_tables", "subnets", "associate_route_tables_with_subnets",
       "endpoints", "key_pairs", "security_group_rules", "security_groups",
       "instance_roles", "wait_until_running", "lock_instances" >>

PipelineRulesBeforeRoles ==
    << "route_tables", "subnets", "associate_route_tables_with_subnets",
       "endpoints", "key_pairs", "security_groups", "security_group_rules",
       "instance_roles", "wait_until_running", "lock_instances" >>

Pipeline ==
    << "route_tables", "subnets", "associate_route_tables_with_subnets",
       "endpoints", "key_pairs", "security_groups", "instance_roles",
       "security_group_rules", "wait_until_running", "lock_instances" >>

StageAfter(s) ==
    LET i == CHOOSE j \in 1..Len(Pipeline) : Pipeline[j] = s
    IN IF i = Len(Pipeline) THEN "done" ELSE Pipeline[i + 1]

NoResult == [kind |-> "unset", inst |-> ZeroPerZone]
NoneResult == [kind |-> "None", inst |-> ZeroPerZone]
ListResult(f) == [kind |-> "list", inst |-> f]

\* ------------------------------------------------------------------- Init
ExistingStates ==
    {t \in [Zones -> [Roles -> 0..MaxExisting]] :
        SumOver([z \in Zones |-> SumOver(t[z], Roles)], Zones) <= MaxExisting}

\* the builds explored: a VPC of four addresses; the first subnet
\* configuration fits it, the second does not
VpcBlock == Block(0, 4)
SubnetCfgs == {<<2, 1>>, <<4, 2>>}

Configs ==
    {c \in [Roles -> [count : 0..MaxDesired, subnets : SubnetLists, eip : BOOLEAN]] :
        {r \in Roles : c[r].eip} \in EipChoices}

InitRoleLocals ==
    /\ role_name = NoRole
    /\ subnets = <<>>
    /\ existing_count = 0
    /\ needed_per_subnet = 0
    /\ needed_remainder = 0
    /\ idx = 0
    /\ existing_in_subnet = 0
    /\ count = 0
    /\ role_instances = ZeroPerZone

\* a VPC no build has touched yet
InitPass ==
    /\ pass = 1
    /\ seen_tokens = {}
    /\ launched = [r \in Roles |-> 0]
    /\ pass_tagged = [r \in Roles |-> ZeroPerZone]

InitBuilder ==
    /\ pc = Pipeline[1]
    /\ completed = {}
    /\ log = <<>>
    /\ emits = {}
    /\ exc = "none"
    /\ exc_stage = "none"
    /\ raised = "none"
    /\ roles = [r \in Roles |-> NoResult]
    /\ roles_with_eips = <<>>
    /\ eip_idx = 0
    /\ tag_done = {}
    /\ tag_role = NoRole
    /\ InitRoleLocals

Init ==
    /\ config \in Configs
    /\ tagged \in ExistingStates
    /\ untagged = ZeroPerZone
    /\ InitBuilder
    /\ InitPass
    /\ subnet_cfg \in SubnetCfgs
    /\ parent = VpcBlock
    /\ sizes = <<>>
    /\ cidrs = Pending
    /\ created = <<>>

\* ------------------------------------------------- raising and apply_all
Raise(kind, at) ==
    /\ exc' = kind
    /\ exc_stage' = at
    /\ pc' = "except"
    /\ UNCHANGED <<completed, emits, raised>>

\* apply_all, lines 39-45: report, then re-raise (teardown is commented out)
Swallow(e) == "none"

Reraise(e) == e

\* lines 39-45 with line 44 not commented out: evpc.terminate() is called
apply_all_teardown ==
    /\ pc = "except"
    /\ emits' = emits \cup {"failed"}
    /\ log' = Append(log, Call("terminate", NoRole, NoZone, 0))
    /\ tagged' = [z \in Zones |-> [r \in Roles |-> 0]]
    /\ untagged' = ZeroPerZone
    /\ created' = <<>>
    /\ raised' = Reraise(exc)
    /\ pc' = "raised"
    /\ UNCHANGED <<cfgvars, completed, exc, exc_stage, rolesvars, rolevars,
                   subnet_cfg, parent, sizes, cidrs, passvars>>

apply_all_except ==
    /\ pc = "except"
    /\ emits' = emits \cup {"failed"}
    /\ raised' = Reraise(exc)
    /\ pc' = "raised"
    /\ UNCHANGED <<cfgvars, cloudvars, completed, log, exc, exc_stage,
                   rolesvars, rolevars, allocvars, passvars>>

\* ---------------------------------------------------- the simple stages
\* A stage that only issues get-or-create and tag calls: it returns, or one
\* of its provider calls raises.
RunStage(s) ==
    /\ pc = s
    /\ log' = Append(log, Call(s, NoRole, NoZone, 0))
    /\ \/ /\ completed' = completed \cup {s}
          /\ pc' = StageAfter(s)
          /\ UNCHANGED <<emits, exc, exc_stage, raised>>
       \/ Raise("ProviderCallFailure", s)
    /\ UNCHANGED <<cfgvars, cloudvars, rolesvars, rolevars, allocvars, passvars>>

route_tables == RunStage("route_tables")

associate_route_tables_with_subnets ==
    RunStage("associate_route_tables_with_subnets")

endpoints == RunStage("endpoints")

key_pairs == RunStage("key_pairs")

security_groups == RunStage("security_groups")

security_group_rules == RunStage("security_group_rules")

\* subnets(), lines 132-166: allocate the blocks, then create the subnets
subnets_stage ==
    /\ pc = "subnets"
    /\ LET szs == sorted(subnet_cfg, [n \in Range(subnet_cfg) |-> n])
           res == allocate(parent, szs)
           all == assign_cidrs(subnet_cfg, szs, res.blocks)
           call == Call("subnets", NoRole, NoZone, Len(subnet_cfg))
       IN /\ sizes' = szs
          /\ cidrs' = res
          /\ \/ /\ res.status # "ok"
                /\ Raise("CapacityExceeded", "subnets")
                /\ UNCHANGED <<log, created>>
             \/ /\ res.status = "ok"
                /\ (created = <<>> \/ subnet_cfg = <<>>)
                /\ created' = IF subnet_cfg = <<>> THEN created ELSE all
                /\ log' = Append(log, call)
                /\ completed' = completed \cup {"subnets"}
                /\ pc' = StageAfter("subnets")
                /\ UNCHANGED <<emits, exc, exc_stage, raised>>
             \/ \* create_subnet or update_tags raises at some subnet
                /\ res.status = "ok"
                /\ created = <<>>
                /\ \E k \in 0..(Len(subnet_cfg) - 1) : created' = SubSeq(all, 1, k)
                /\ log' = Append(log, call)
                /\ Raise("ProviderCallFailure", "subnets")
             \/ \* an earlier build created subnets in these blocks: the first
                \* create_subnet is refused (there is no get-or-create here)
                /\ res.status = "ok"
                /\ created # <<>>
                /\ subnet_cfg # <<>>
                /\ log' = Append(log, call)
                /\ Raise("ProviderCallFailure", "subnets")
                /\ UNCHANGED created
    /\ UNCHANGED <<cfgvars, cloudvars, rolesvars, rolevars, subnet_cfg, parent,
                   passvars>>

\* ------------------------------------------------------- instance_role
\* lines 311-313 (Python 2: / on ints is floor division)
desired_count_of(desired, existing) == desired

needed_count_of(desired, existing) == desired - existing

per_subnet_of(needed, nsubnets) == needed \div nsubnets

remainder_of(needed, nsubnets) == needed % nsubnets

\* lines 323-326: the count of one subnet
ZoneCount(per_subnet, in_subnet, remainder) ==
    per_subnet - in_subnet + (IF remainder # 0 THEN 1 ELSE 0)

RemainderKept(remainder) == remainder

NextRemainder(remainder) == IF remainder # 0 THEN remainder - 1 ELSE remainder

\* lines 244-315: one iteration of the roles loop up to the subnet loop
instance_role_begin(r) ==
    /\ pc = "instance_roles"
    /\ roles[r].kind = "unset"
    /\ role_name' = r
    /\ roles_with_eips' =
          IF config[r].eip THEN Append(roles_with_eips, r) ELSE roles_with_eips
    /\ IF Len(config[r].subnets) = 0
       THEN \* lines 288-293: warn, return None
            /\ emits' = emits \cup {"no_subnets"}
            /\ roles' = [roles EXCEPT ![r] = NoneResult]
            /\ UNCHANGED <<pc, completed, exc, exc_stage, raised, subnets,
                           existing_count, needed_per_subnet, needed_remainder,
                           idx, role_instances>>
       ELSE /\ subnets' = sorted(config[r].subnets,
                                 [z \in Zones |-> collection_len(z)])
            /\ existing_count' = get_role_len(r)
            /\ IF get_role_len(r) >= config[r].count
               THEN \* line 307: int + str raises before the return of line 308
                    /\ Raise("TypeError", "instance_role")
                    /\ UNCHANGED <<roles, needed_per_subnet, needed_remainder,
                                   idx, role_instances>>
               ELSE LET needed == needed_count_of(config[r].count, get_role_len(r))
                        n == Len(config[r].subnets)
                    IN /\ needed_per_subnet' = per_subnet_of(needed, n)
                       /\ needed_remainder' = remainder_of(needed, n)
                       /\ role_instances' = ZeroPerZone
                       /\ idx' = 1
                       /\ pc' = "instance_role"
                       /\ UNCHANGED <<roles, completed, emits, exc, exc_stage,
                                      raised>>
    /\ UNCHANGED <<cfgvars, cloudvars, log, eip_idx, tag_done, tag_role,
                   existing_in_subnet, count, allocvars, passvars>>

\* line 319: str(uuid4()), a value that no other call carries; a subnet of
\* a role is walked once in a pass, so (pass, role, subnet) names the call
client_token(p, r, sn) == [pass |-> p, role |-> r, zone |-> sn]

\* lines 317-347: one iteration of the subnet loop
instance_role_subnet ==
    /\ pc = "instance_role"
    /\ idx <= Len(subnets)
    /\ LET sn == subnets[idx]
           e == get_role_in_subnet_len(role_name, sn)
           c == ZoneCount(needed_per_subnet, e, needed_remainder)
           launch == Call("create_instances", role_name, sn, c)
           token == client_token(pass, role_name, sn)
       IN /\ existing_in_subnet' = e
          /\ count' = c
          /\ needed_remainder' = NextRemainder(needed_remainder)
          /\ \/ \* line 328: nothing to launch here
                /\ c = 0
                /\ idx' = idx + 1
                /\ UNCHANGED <<cloudvars, ctlvars, role_instances, seen_tokens,
                               launched>>
             \/ \* the batch is launched
                /\ c > 0
                /\ token \notin seen_tokens
                /\ log' = Append(log, launch)
                /\ untagged' = [untagged EXCEPT ![sn] = @ + c]
                /\ role_instances' = [role_instances EXCEPT ![sn] = @ + c]
                /\ seen_tokens' = seen_tokens \cup {token}
                /\ launched' = [launched EXCEPT ![role_name] = @ + c]
                /\ idx' = idx + 1
                /\ UNCHANGED <<tagged, pc, completed, emits, exc, exc_stage, raised>>
             \/ \* a token the provider has processed: it answers with the
                \* instances of that request and creates none
                /\ c > 0
                /\ token \in seen_tokens
                /\ log' = Append(log, launch)
                /\ role_instances' = [role_instances EXCEPT ![sn] = @ + c]
                /\ idx' = idx + 1
                /\ UNCHANGED <<cloudvars, pc, completed, emits, exc, exc_stage,
                               raised, seen_tokens, launched>>
             \/ \* the launch call raises; the provider may have created the batch
                /\ c > 0
                /\ log' = Append(log, launch)
                /\ \E made \in (IF token \in seen_tokens THEN {0} ELSE {0, c}) :
                      /\ untagged' = [untagged EXCEPT ![sn] = @ + made]
                      /\ launched' = [launched EXCEPT ![role_name] = @ + made]
                      /\ seen_tokens' = IF made = 0 THEN seen_tokens
                                        ELSE seen_tokens \cup {token}
                /\ Raise("ProviderCallFailure", "create_instances")
                /\ UNCHANGED <<tagged, idx, role_instances>>
             \/ \* MinCount = MaxCount < 0: the provider rejects the request
                /\ c < 0
                /\ log' = Append(log, launch)
                /\ Raise("ProviderCallFailure", "create_instances")
                /\ UNCHANGED <<cloudvars, idx, role_instances, seen_tokens,
                               launched>>
    /\ UNCHANGED <<cfgvars, rolesvars, role_name, subnets, existing_count,
                   needed_per_subnet, allocvars, pass, pass_tagged>>

\* line 350 and line 253: the launched instances become roles[role_name]
instance_role_return ==
    /\ pc = "instance_role"
    /\ idx > Len(subnets)
    /\ roles' = [roles EXCEPT ![role_name] = ListResult(role_instances)]
    /\ pc' = "instance_roles"
    /\ UNCHANGED <<cfgvars, cloudvars, completed, log, emits, exc, exc_stage,
                   raised, roles_with_eips, eip_idx, tag_done, tag_role,
                   rolevars, allocvars, passvars>>

\* ------------------------------------------------------ instance_roles
\* the roles loop (line 244) is exhausted
roles_loop_end ==
    /\ pc = "instance_roles"
    /\ \A r \in Roles : roles[r].kind # "unset"
    /\ pc' = "tag_instances"
    /\ UNCHANGED <<cfgvars, cloudvars, completed, log, emits, exc, exc_stage,
                   raised, rolesvars, rolevars, allocvars, passvars>>

\* lines 253-257: the instances handed to tag_instances for a role
LastRoleInstances(r) == role_instances

InstancesToTag(r) == roles[r].inst

\* lines 256-257 with tag_instances (lines 352-368) for one role
tag_instances(r) ==
    /\ pc = "tag_instances"
    /\ r \notin tag_done
    /\ tag_role' = r
    /\ LET inst == InstancesToTag(r)
           n == SumOver(inst, Zones)
       IN \/ \* for instance in None
             /\ roles[r].kind = "None"
             /\ Raise("TypeError", "tag_instances")
             /\ UNCHANGED <<cloudvars, log, tag_done, pass_tagged>>
          \/ /\ roles[r].kind = "list"
             /\ n = 0
             /\ tag_done' = tag_done \cup {r}
             /\ UNCHANGED <<cloudvars, ctlvars, pass_tagged>>
          \/ /\ roles[r].kind = "list"
             /\ n > 0
             /\ log' = Append(log, Call("update_tags", r, NoZone, n))
             /\ tagged' = [z \in Zones |-> [tagged[z] EXCEPT ![r] = @ + inst[z]]]
             /\ untagged' = [z \in Zones |-> untagged[z] - inst[z]]
             /\ pass_tagged' = [pass_tagged EXCEPT
                                   ![r] = [z \in Zones |-> @[z] + inst[z]]]
             /\ tag_done' = tag_done \cup {r}
             /\ UNCHANGED <<pc, completed, emits, exc, exc_stage, raised>>
          \/ \* update_tags raises after some of the instances were tagged
             /\ roles[r].kind = "list"
             /\ n > 0
             /\ \E part \in [Zones -> 0..n] :
                   /\ \A z \in Zones : part[z] <= inst[z]
                   /\ part # inst
                   /\ log' = Append(log, Call("update_tags", r, NoZone,
                                              SumOver(part, Zones) + 1))
                   /\ tagged' = [z \in Zones |->
                                    [tagged[z] EXCEPT ![r] = @ + part[z]]]
                   /\ untagged' = [z \in Zones |-> untagged[z] - part[z]]
                   /\ pass_tagged' = [pass_tagged EXCEPT
                                         ![r] = [z \in Zones |-> @[z] + part[z]]]
             /\ Raise("ProviderCallFailure", "tag_instances")
             /\ UNCHANGED tag_done
    /\ UNCHANGED <<cfgvars, roles, roles_with_eips, eip_idx, rolevars, allocvars,
                   pass, seen_tokens, launched>>

\* the tagging loop (line 256) is exhausted
tag_loop_end ==
    /\ pc = "tag_instances"
    /\ tag_done = Roles
    /\ pc' = "allocate_eip"
    /\ eip_idx' = 1
    /\ UNCHANGED <<cfgvars, cloudvars, completed, log, emits, exc, exc_stage,
                   raised, roles, roles_with_eips, tag_done, tag_role,
                   rolevars, allocvars, passvars>>

\* lines 261-268: the instances of one role with eip get their addresses
allocate_eip ==
    /\ pc = "allocate_eip"
    /\ eip_idx <= Len(roles_with_eips)
    /\ LET r == roles_with_eips[eip_idx]
           n == SumOver(roles[r].inst, Zones)
       IN \/ /\ n = 0
             /\ eip_idx' = eip_idx + 1
             /\ UNCHANGED ctlvars
          \/ /\ n > 0
             /\ log' = Append(log, Call("allocate_eip", r, NoZone, n))
             /\ eip_idx' = eip_idx + 1
             /\ UNCHANGED <<pc, completed, emits, exc, exc_stage, raised>>
          \/ /\ n > 0
             /\ log' = Append(log, Call("allocate_eip", r, NoZone, n))
             /\ Raise("ProviderCallFailure", "allocate_eip")
             /\ UNCHANGED eip_idx
    /\ UNCHANGED <<cfgvars, cloudvars, roles, roles_with_eips, tag_done,
                   tag_role, rolevars, allocvars, passvars>>

\* instance_roles returns to _apply_all
instance_roles_return ==
    /\ pc = "allocate_eip"
    /\ eip_idx > Len(roles_with_eips)
    /\ completed' = completed \cup {"instance_roles"}
    /\ pc' = StageAfter("instance_roles")
    /\ UNCHANGED <<cfgvars, cloudvars, log, emits, exc, exc_stage, raised,
                   rolesvars, rolevars, allocvars, passvars>>

\* ------------------------------------------------ the end of _apply_all
\* lines 68-70: every instance of the VPC is waited on
wait_until_running ==
    /\ pc = "wait_until_running"
    /\ LET n == SumOver([z \in Zones |-> collection_len(z)], Zones)
       IN \/ /\ n = 0
             /\ completed' = completed \cup {"wait_until_running"}
             /\ pc' = StageAfter("wait_until_running")
             /\ UNCHANGED <<log, emits, exc, exc_stage, raised>>
          \/ /\ n > 0
             /\ log' = Append(log, Call("wait_until_running", NoRole, NoZone, n))
             /\ completed' = completed \cup {"wait_until_running"}
             /\ pc' = StageAfter("wait_until_running")
             /\ UNCHANGED <<emits, exc, exc_stage, raised>>
          \/ /\ n > 0
             /\ log' = Append(log, Call("wait_until_running", NoRole, NoZone, n))
             /\ Raise("ProviderCallFailure", "wait_until_running")
    /\ UNCHANGED <<cfgvars, cloudvars, rolesvars, rolevars, allocvars, passvars>>

\* lines 72-77 without the try: the failure of the lock call propagates
lock_instances_raises ==
    /\ pc = "lock_instances"
    /\ log' = Append(log, Call("lock_instances", NoRole, NoZone, 0))
    /\ \/ /\ completed' = completed \cup {"lock_instances"}
          /\ pc' = StageAfter("lock_instances")
          /\ UNCHANGED <<emits, exc, exc_stage, raised>>
       \/ /\ emits' = emits \cup {"lock_warning"}
          /\ exc' = "ProviderCallFailure"
          /\ exc_stage' = "lock_instances"
          /\ pc' = "except"
          /\ UNCHANGED <<completed, raised>>
    /\ UNCHANGED <<cfgvars, cloudvars, rolesvars, rolevars, allocvars, passvars>>

\* lines 72-77: the lock is tried; its failure is only a warning
lock_instances ==
    /\ pc = "lock_instances"
    /\ log' = Append(log, Call("lock_instances", NoRole, NoZone, 0))
    /\ \/ /\ completed' = completed \cup {"lock_instances"}
          /\ UNCHANGED emits
       \/ /\ emits' = emits \cup {"lock_warning"}
          /\ UNCHANGED completed
    /\ pc' = StageAfter("lock_instances")
    /\ UNCHANGED <<cfgvars, cloudvars, exc, exc_stage, raised, rolesvars,
                   rolevars, allocvars, passvars>>

Next ==
    \/ route_tables
    \/ subnets_stage
    \/ associate_route_tables_with_subnets
    \/ endpoints
    \/ key_pairs
    \/ security_groups
    \/ \E r \in Roles : instance_role_begin(r)
    \/ instance_role_subnet
    \/ instance_role_return
    \/ roles_loop_end
    \/ \E r \in Roles : tag_instances(r)
    \/ tag_loop_end
    \/ allocate_eip
    \/ instance_roles_return
    \/ security_group_rules
    \/ wait_until_running
    \/ lock_instances
    \/ apply_all_except

Spec == Init /\ [][Next]_vars

\* ------------------------------------------- allocate as a pure function
Parents ==
    {Block(m * Pow2(k), Pow2(k)) : k \in 0..MaxPrefixBits, m \in 0..2}

SizeChoices == {Pow2(k) : k \in 0..MaxPrefixBits} \cup {3}

RECURSIVE SeqsUpTo(_, _)
SeqsUpTo(S, n) ==
    IF n = 0 THEN {<<>>}
    ELSE LET shorter == SeqsUpTo(S, n - 1)
         IN shorter \cup {Append(q, x) : q \in shorter, x \in S}

InitAlloc ==
    /\ config = [r \in Roles |-> [count |-> 0, subnets |-> <<>>, eip |-> FALSE]]
    /\ tagged = [z \in Zones |-> [r \in Roles |-> 0]]
    /\ untagged = ZeroPerZone
    /\ InitBuilder
    /\ InitPass
    /\ subnet_cfg = <<>>
    /\ parent \in Parents
    /\ sizes \in SeqsUpTo(SizeChoices, MaxRequests)
    /\ cidrs = Pending
    /\ created = <<>>

\* line 135: cidrs = allocate(self.evpc.cidr_block, sizes)
allocate_apply ==
    /\ cidrs = Pending
    /\ cidrs' = allocate(parent, sizes)
    /\ UNCHANGED <<cfgvars, cloudvars, ctlvars, rolesvars, rolevars,
                   subnet_cfg, parent, sizes, created, passvars>>

NextAlloc == allocate_apply

SpecAlloc == InitAlloc /\ [][NextAlloc]_vars

\* ------------------------------------- subnets() over the configurations
\* the builds explored up to the end of subnets(): any parent block and any
\* sizes, equal ones included, in any order of the configuration's names
InitSubnets ==
    /\ config = [r \in Roles |-> [count |-> 0, subnets |-> <<>>, eip |-> FALSE]]
    /\ tagged = [z \in Zones |-> [r \in Roles |-> 0]]
    /\ untagged = ZeroPerZone
    /\ InitBuilder
    /\ InitPass
    /\ subnet_cfg \in SeqsUpTo(SizeChoices, MaxRequests)
    /\ parent \in Parents
    /\ sizes = <<>>
    /\ cidrs = Pending
    /\ created = <<>>

NextSubnets ==
    \/ route_tables
    \/ subnets_stage
    \/ apply_all_except

SpecSubnets == InitSubnets /\ [][NextSubnets]_vars

\* ------------------------------------------------ the build, run again
\* the builds explored over several passes: role db is fixed, role web and
\* the instances already present vary; the configuration may name no subnets
RetryConfigs ==
    {c \in Configs : c["db"] = [count |-> 1, subnets |-> <<"a">>, eip |-> FALSE]}

RetrySubnetCfgs == {<<>>, <<2, 1>>}

InitRetry ==
    /\ config \in RetryConfigs
    /\ tagged \in ExistingStates
    /\ untagged = ZeroPerZone
    /\ InitBuilder
    /\ InitPass
    /\ subnet_cfg \in RetrySubnetCfgs
    /\ parent = VpcBlock
    /\ sizes = <<>>
    /\ cidrs = Pending
    /\ created = <<>>

\* apply_all is called again, by a new EnvironmentBuilder with the same
\* configuration (lines 21-38): the VPC keeps what the earlier passes left
apply_all_again ==
    /\ pc \in {"raised", "done"}
    /\ pass < MaxPasses
    /\ pass' = pass + 1
    /\ pass_tagged' = [r \in Roles |-> ZeroPerZone]
    /\ pc' = Pipeline[1]
    /\ completed' = {}
    /\ log' = <<>>
    /\ emits' = {}
    /\ exc' = "none"
    /\ exc_stage' = "none"
    /\ raised' = "none"
    /\ roles' = [r \in Roles |-> NoResult]
    /\ roles_with_eips' = <<>>
    /\ eip_idx' = 0
    /\ tag_done' = {}
    /\ tag_role' = NoRole
    /\ role_name' = NoRole
    /\ subnets' = <<>>
    /\ existing_count' = 0
    /\ needed_per_subnet' = 0
    /\ needed_remainder' = 0
    /\ idx' = 0
    /\ existing_in_subnet' = 0
    /\ count' = 0
    /\ role_instances' = ZeroPerZone
    /\ sizes' = <<>>
    /\ cidrs' = Pending
    /\ UNCHANGED <<cfgvars, cloudvars, subnet_cfg, parent, created,
                   seen_tokens, launched>>

NextRetry ==
    \/ Next
    \/ apply_all_again

SpecRetry == InitRetry /\ [][NextRetry]_vars

\* ================================================================ claims
Called(op) == \E i \in 1..Len(log) : log[i].op = op

LoopDone == pc = "instance_role" /\ idx > Len(subnets)

\* the role's instances in its eligible zones
ExistingInZones(r, zs) == SumOver([z \in Zones |-> tagged[z][r]], Range(zs))

\* C1: when instance_role has walked all the zones of a role with at least
\* one zone and fewer instances than desired, every launch having succeeded,
\* the instances launched number desired_count - existing_total.
C1_LaunchesExactlyNeeded ==
    ( /\ LoopDone
      /\ Len(subnets) >= 1
      /\ existing_count = ExistingInZones(role_name, subnets)
      /\ existing_count < config[role_name].count )
    => SumOver(role_instances, Zones) = config[role_name].count - existing_count

\* C2: a role holding at least as many instances as desired is a no-op:
\* neither instance_role nor the tagging of that role raises.
C2_ScaleDownIsNoOp ==
    /\ ~ ( /\ exc # "none"
           /\ exc_stage = "instance_role"
           /\ existing_count >= config[role_name].count )
    /\ ~ ( /\ exc # "none"
           /\ exc_stage = "tag_instances"
           /\ get_role_len(tag_role) >= config[tag_role].count )

\* C3: no launch call is issued with a count <= 0, and a zone whose count is
\* <= 0 never causes an error.
C3_NoLaunchOfNonPositiveCount ==
    /\ \A i \in 1..Len(log) : log[i].op = "create_instances" => log[i].n > 0
    /\ ~ (exc # "none" /\ exc_stage = "create_instances" /\ count <= 0)

\* C4: a role naming no subnets is reported and skipped; it makes neither
\* instance_roles nor apply_all raise.
C4_ZonelessRoleIsSkipped ==
    /\ \A r \in Roles :
          (roles[r].kind # "unset" /\ Len(config[r].subnets) = 0)
             => "no_subnets" \in emits
    /\ ~ ( /\ exc # "none"
           /\ exc_stage = "tag_instances"
           /\ Len(config[tag_role].subnets) = 0 )

Disjoint(b1, b2) ==
    b1.base + b1.cap <= b2.base \/ b2.base + b2.cap <= b1.base

Inside(b, p) == p.base <= b.base /\ b.base + b.cap <= p.base + p.cap

\* C5: for a parent aligned to its capacity and power-of-two requests whose
\* sum fits the parent, allocate does not fail and returns one block per
\* request, in request order, each of the requested capacity and inside the
\* parent, the blocks pairwise disjoint.
C5_AllocateFits ==
    ( /\ cidrs # Pending
      /\ parent.base % parent.cap = 0
      /\ \A i \in 1..Len(sizes) : IsPowerOfTwo(sizes[i])
      /\ SumSeq(sizes) <= parent.cap )
    => /\ cidrs.status = "ok"
       /\ Len(cidrs.blocks) = Len(sizes)
       /\ \A i \in 1..Len(sizes) :
             /\ cidrs.blocks[i].cap = sizes[i]
             /\ Inside(cidrs.blocks[i], parent)
       /\ \A i, j \in 1..Len(sizes) :
             i < j => Disjoint(cidrs.blocks[i], cidrs.blocks[j])

C5_Witness ==
    /\ parent = Block(8, 8)
    /\ sizes = <<1, 4, 2>>
    /\ cidrs = Allocated(<<Block(14, 1), Block(8, 4), Block(12, 2)>>)

\* C6: once a stage has raised, no provider call is issued and nothing is
\* created, tagged or completed any more; the pipeline is in apply_all's
\* handler, which reports the failure and raises that same failure.
C6_FailureAbortsAndReraises ==
    /\ [](exc # "none" => pc \in {"except", "raised"})
    /\ [](pc = "raised" => (exc # "none" /\ raised = exc /\ "failed" \in emits))
    /\ [](pc = "done" => (exc = "none" /\ raised = "none"))
    /\ [][exc # "none" =>
            /\ log' = log
            /\ completed' = completed
            /\ tagged' = tagged
            /\ untagged' = untagged
            /\ created' = created
            /\ exc' = exc]_vars

C6_Witness ==
    /\ pc = "raised"
    /\ exc = "ProviderCallFailure"
    /\ exc_stage = "security_groups"
    /\ raised = "ProviderCallFailure"
    /\ Len(log) = 6
    /\ "instance_roles" \notin completed

\* C7: associations are made after the route-table and subnet stages have
\* returned, rules are applied after the security-group stage has returned,
\* and instances are launched after the subnet, key-pair and security-group
\* stages have returned.
C7_CreatedBeforeReferenced ==
    /\ Called("associate_route_tables_with_subnets")
          => {"route_tables", "subnets"} \subseteq completed
    /\ Called("security_group_rules") => "security_groups" \in completed
    /\ Called("create_instances")
          => {"subnets", "key_pairs", "security_groups"} \subseteq completed

C7_Witness ==
    /\ pc = "done"
    /\ Called("associate_route_tables_with_subnets")
    /\ Called("security_group_rules")
    /\ Called("create_instances")

\* the provider calls of the log follow the order given by rank
OrderedBy(rank) ==
    \A i, j \in 1..Len(log) :
        (i < j /\ log[i].op \in DOMAIN rank /\ log[j].op \in DOMAIN rank)
           => rank[log[i].op] <= rank[log[j].op]

\* C8 as stated: launch, rule application, wait-for-running, tagging, lock.
C8_TagsAfterRulesAndWait ==
    /\ OrderedBy([create_instances |-> 1, security_group_rules |-> 2,
                  wait_until_running |-> 3, update_tags |-> 4,
                  lock_instances |-> 5])
    /\ Called("update_tags")
          => {"security_group_rules", "wait_until_running"} \subseteq completed

\* C8 amended: launch, tagging (inside the instance-roles stage), rule
\* application, wait-for-running, lock.
C8_TagsBeforeRulesAndWait ==
    /\ OrderedBy([create_instances |-> 1, update_tags |-> 2,
                  security_group_rules |-> 3, wait_until_running |-> 4,
                  lock_instances |-> 5])
    /\ (Called("security_group_rules") \/ Called("wait_until_running"))
          => (pc # "tag_instances" /\ "instance_roles" \in completed)

C8_Witness ==
    /\ pc = "done"
    /\ Called("create_instances")
    /\ Called("update_tags")
    /\ Called("security_group_rules")
    /\ Called("wait_until_running")
    /\ Called("lock_instances")

ShareOf(k) ==
    LET needed == config[role_name].count - existing_count
    IN (needed \div Len(subnets))
       + (IF k <= needed % Len(subnets) THEN 1 ELSE 0)

\* C9: before the zone's own instances are subtracted, the k-th walked zone
\* is given (D - E) div Z, plus one exactly when k <= (D - E) mod Z; over a
\* complete walk these shares sum to D - E.
C9_RemainderToFirstZones ==
    /\ (pc = "instance_role" /\ idx > 1)
          => count + existing_in_subnet = ShareOf(idx - 1)
    /\ (pc = "except" /\ exc_stage = "create_instances")
          => count + existing_in_subnet = ShareOf(idx)
    /\ LoopDone
          => SumOver(role_instances, Zones)
                + ExistingInZones(role_name, subnets)
             = config[role_name].count - existing_count

C9_Witness ==
    /\ LoopDone
    /\ Len(subnets) = 3
    /\ (config[role_name].count - existing_count) % 3 = 2
    /\ existing_count > 0

\* C10 as stated: the zones are walked in ascending order of the instances
\* of the reconciled role they hold.
C10_WalkedByRoleOccupancy ==
    pc = "instance_role" =>
        \A i, j \in 1..Len(subnets) :
            i < j => tagged[subnets[i]][role_name] <= tagged[subnets[j]][role_name]

\* the instances of the zone when instance_role sorted the subnets
InstancesAtSort(z) == collection_len(z) - role_instances[z]

\* C10 amended: the zones are walked in ascending order of all the instances
\* they hold, of whatever role, equal zones in configured order.
C10_WalkedByTotalInstances ==
    pc = "instance_role" =>
        LET cfg == config[role_name].subnets
            at(z) == CHOOSE k \in 1..Len(cfg) : cfg[k] = z
        IN /\ Len(subnets) = Len(cfg)
           /\ Range(subnets) = Range(cfg)
           /\ \A i, j \in 1..Len(subnets) :
                 i < j =>
                    \/ InstancesAtSort(subnets[i]) < InstancesAtSort(subnets[j])
                    \/ /\ InstancesAtSort(subnets[i]) = InstancesAtSort(subnets[j])
                       /\ at(subnets[i]) < at(subnets[j])

C10_Witness ==
    /\ pc = "instance_role"
    /\ config[role_name].subnets = <<"b", "a">>
    /\ subnets = <<"a", "b">>
    /\ \E r \in Roles \ {role_name} : tagged["b"][r] > 0
    /\ InstancesAtSort("a") < InstancesAtSort("b")

\* C11: over any sequence of failed and retried passes, the instances the
\* provider created for the launches of a role never number more than the
\* role's desired count (a re-issued batch creates no duplicates).
C11_RetryCreatesNoDuplicates ==
    \A r \in Roles : launched[r] <= config[r].count

\* the instances that the launch calls of role r in subnet z returned in this
\* build: the create_instances calls of the log, but for one that raised
ReturnedLaunches(r, z) ==
    SumOver([i \in 1..Len(log) |->
                IF /\ log[i].op = "create_instances"
                   /\ log[i].role = r
                   /\ log[i].zone = z
                   /\ ~(i = Len(log) /\ exc_stage = "create_instances")
                THEN log[i].n ELSE 0],
            1..Len(log))

\* C12 as stated: when a build has ended (on a path that never iterates a
\* None result), the instances tagged role=R in it are exactly the instances
\* that the launch calls of R returned in it, for every role R.
C12_TaggedExactlyReturned ==
    (pc \in {"raised", "done"} /\ exc # "TypeError") =>
        \A r \in Roles : \A z \in Zones :
            pass_tagged[r][z] = ReturnedLaunches(r, z)

\* C12 amended: at every moment the instances tagged role=R in a build are
\* among those that the launch calls of R returned in it, and they are
\* exactly those once tag_instances has returned for R.
C12_TaggedAmongReturned ==
    \A r \in Roles : \A z \in Zones :
        /\ pass_tagged[r][z] <= ReturnedLaunches(r, z)
        /\ r \in tag_done => pass_tagged[r][z] = ReturnedLaunches(r, z)

\* both roles were launched, differently, and both were tagged
C12_Witness ==
    /\ tag_done = Roles
    /\ pass_tagged["web"] # pass_tagged["db"]
    /\ \A r \in Roles : \E z \in Zones : pass_tagged[r][z] > 0

\* ------------------------------------------------ the scenario of "web"
\* role web wants five instances in the subnets a, b, c; one instance of web
\* runs in b and one in c, none in a; the other role is any role
ScenarioConfigs ==
    {c \in [Roles -> [count : 0..5, subnets : SubnetLists, eip : BOOLEAN]] :
        /\ c["web"].count = 5
        /\ c["web"].subnets = <<"a", "b", "c">>
        /\ c["db"].count <= MaxDesired
        /\ ~c["db"].eip}

ScenarioExisting ==
    [z \in Zones |-> [r \in Roles |->
        IF r = "web" /\ z \in {"b", "c"} THEN 1 ELSE 0]]

InitScenario ==
    /\ config \in ScenarioConfigs
    /\ tagged = ScenarioExisting
    /\ untagged = ZeroPerZone
    /\ InitBuilder
    /\ InitPass
    /\ subnet_cfg \in SubnetCfgs
    /\ parent = VpcBlock
    /\ sizes = <<>>
    /\ cidrs = Pending
    /\ created = <<>>

NextScenario == Next

SpecScenario == InitScenario /\ [][NextScenario]_vars

\* C13: for web with desired count 5 and the subnets walked as a:0, b:1,
\* c:1, instance_role computes needed = 4, share = 1, remainder = 1, and when
\* its loop is over it has launched a:2, b:1, c:1.
C13_WebScenarioPlan ==
    (pc = "instance_role" /\ role_name = "web" /\ subnets = <<"a", "b", "c">>) =>
        /\ needed_count_of(config["web"].count, existing_count) = 4
        /\ needed_per_subnet = 1
        /\ idx = 1 => needed_remainder = 1
        /\ LoopDone => role_instances = [z \in Zones |->
                                            IF z = "a" THEN 2 ELSE 1]

\* C14: repeated passes bring a role to its desired count and later passes
\* are quiet. Two consequences, both on finite runs: a pass that walks the
\* only subnet of a role holding fewer instances than desired launches at
\* least one (a pass that launches none leaves the role as it found it, and
\* so does every later pass); and a pass that finds a role at exactly the
\* desired count, brought there by earlier launches, does not fail on it.
C14_PassesConverge ==
    /\ ( /\ LoopDone
          /\ Len(subnets) = 1
          /\ existing_count < config[role_name].count )
       => SumOver(role_instances, Zones) > 0
    /\ ~ ( /\ pass > 1
           /\ exc = "TypeError"
           /\ exc_stage = "instance_role"
           /\ launched[role_name] > 0
           /\ existing_count = config[role_name].count )

\* C15: when the lock call raises, after every earlier stage succeeded, the
\* failure is logged as a warning only: _apply_all ends normally and
\* apply_all neither reports a failed build nor raises.
C15_LockIsBestEffort ==
    "lock_warning" \in emits =>
        /\ pc = "done"
        /\ exc = "none"
        /\ raised = "none"
        /\ "failed" \notin emits
        /\ completed = Range(Pipeline) \ {"lock_instances"}

\* the lock call raised at the end of a build that launched instances
C15_Witness ==
    /\ "lock_warning" \in emits
    /\ pc = "done"
    /\ Called("create_instances")
    /\ Called("lock_instances")

\* C16: when subnets() has returned, it has created one subnet per configured
\* name, each in a block whose capacity is the size configured for that
\* name; no block went to two subnets, equal sizes included, and every block
\* that allocate returned is the block of exactly one subnet.
C16_OneBlockPerSubnet ==
    "subnets" \in completed =>
        /\ Len(created) = Len(subnet_cfg)
        /\ \A j \in 1..Len(created) :
              /\ created[j].size = subnet_cfg[j]
              /\ created[j].cidr.cap = subnet_cfg[j]
        /\ \A i \in 1..Len(created) : \A j \in 1..Len(created) :
              i # j => Disjoint(created[i].cidr, created[j].cidr)
        /\ \A k \in 1..Len(cidrs.blocks) :
              Cardinality({j \in 1..Len(created) :
                              created[j].cidr = cidrs.blocks[k]}) = 1

\* three subnets were created, two of them of one size
C16_Witness ==
    /\ "subnets" \in completed
    /\ Len(created) = 3
    /\ subnet_cfg[1] = subnet_cfg[3]
    /\ subnet_cfg[1] # subnet_cfg[2]

Max(a, b) == IF a >= b THEN a ELSE b

\* C17: over the passes of a VPC, whenever every instance that was launched
\* has been tagged, no role has more instances than the larger of what it
\* had before the first pass and its desired count; and the instances that
\* instance_role has launched in a pass never number more than
\* max(0, desired_count - existing_count).
C17_NeverOverProvisions ==
    /\ untagged = ZeroPerZone =>
          \A r \in Roles :
             get_role_len(r) <= Max(get_role_len(r) - launched[r],
                                    config[r].count)
    /\ pc = "instance_role" =>
          SumOver(role_instances, Zones)
             <= Max(0, config[role_name].count - existing_count)

\* a role that an earlier pass brought to its desired count, all launched
\* instances tagged, is reconciled again in a later pass
C17_Witness ==
    /\ pass > 1
    /\ untagged = ZeroPerZone
    /\ role_name \in Roles
    /\ launched[role_name] > 0
    /\ existing_count = config[role_name].count
    /\ get_role_len(role_name) = config[role_name].count

\* C18: a failed build rolls nothing back: no terminate or delete call is
\* ever issued, the step of apply_all's handler leaves every instance and
\* subnet as the failed stage left it, and no step of the build removes an
\* instance, a role tag or a subnet; so what was created before the failure
\* exists, unchanged, when apply_all has re-raised.
C18_NoRollback ==
    /\ [](\A i \in 1..Len(log) : log[i].op \notin {"terminate", "delete"})
    /\ [][pc = "except" =>
            /\ pc' = "raised"
            /\ tagged' = tagged
            /\ untagged' = untagged
            /\ created' = created]_vars
    /\ [][ /\ \A z \in Zones :
               /\ collection_len(z)' >= collection_len(z)
               /\ \A r \in Roles : tagged'[z][r] >= tagged[z][r]
           /\ Len(created') >= Len(created)
           /\ created = SubSeq(created', 1, Len(created)) ]_vars

\* apply_all has re-raised after subnets were created and instances launched
C18_Witness ==
    /\ pc = "raised"
    /\ raised = "ProviderCallFailure"
    /\ created # <<>>
    /\ \E z \in Zones : untagged[z] > 0
    /\ \E z \in Zones : \E r \in Roles : pass_tagged[r][z] > 0

====
